---- MODULE Spec2Model ----
(***************************************************************************)
(* cell-ref: a Cell<T> wrapping core::cell::Cell<T>, with by-reference     *)
(* access through closures (with / with_mut).                               *)
(*                                                                         *)
(* The model is a single thread of control.  `stack` holds one frame per   *)
(* access method that is currently executing (its closure is running, or   *)
(* a nested re-entrant call made by its closure is).  A value of T is an   *)
(* object [id, v]: v is its contents, id its identity, so that a move      *)
(* (take, set) and a duplication (Copy, Clone) are different things.       *)
(* T is a type that is Copy, Clone and Default (as u8 is), so that both    *)
(* method families can be called on the same cell.                         *)
(*                                                                         *)
(* `panicking` holds while a panic raised by a closure is unwinding.       *)
(* `done` is history: the operation that just completed, with what it      *)
(* returned and what its frame held; any later step overwrites it.         *)
(***************************************************************************)
EXTENDS Integers, Sequences, FiniteSets, TLC

VARIABLES cell, stack, panicking, done

vars == <<cell, stack, panicking, done>>

\* Largest contents of a T; T behaves like a small unsigned integer.
MaxVal == 1
\* Deepest nesting of access methods (closures calling back into the cell).
MaxDepth == 2

Val == 0..MaxVal
Modulus == MaxVal + 1
\* <u8 as Default>::default(), the contents of DefaultType::default().
DefaultV == 0

CopyMeths == {"Cell::with", "Cell::with_mut"}
ExtMeths == {"CellExt::with", "CellExt::with_mut"}
MutMeths == {"Cell::with_mut", "CellExt::with_mut"}
Meths == CopyMeths \cup ExtMeths
Ctors == {"Cell::new", "From<T>", "From<StdCell<T>>"}
\* The closures a caller passes: with_mut gets a mutating one, with a reader.
MutClosures == {"inc", "dbl"}
Closures(meth) == IF meth \in MutMeths THEN MutClosures ELSE {"read"}

Obj(id, v) == [id |-> id, v |-> v]
\* Bitwise copy / Clone::clone: a new object with the same contents.
Dup(obj, id) == Obj(id, obj.v)
\* T::default(): a new object holding the default contents.
TDefault(id) == Obj(id, DefaultV)

----------------------------------------------------------------------------
(* core::cell::Cell, as the crate uses it                                  *)

StdNew(value) == [value |-> value]
StdGet(c, id) == Dup(c.value, id)
StdSet(c, value) == [c EXCEPT !.value = value]
\* mem::replace(slot, Default::default()): the old object moves out.
StdTake(c, id) == [cell |-> [c EXCEPT !.value = TDefault(id)], out |-> c.value]

----------------------------------------------------------------------------
(* struct Cell<T>(StdCell<T>) and its constructors and conversions         *)

New(value) == <<StdNew(value)>>
FromValue(value) == New(value)
FromStdDefault(c) == <<StdNew(TDefault(c.value.id))>>
FromStd(c) == <<c>>
IntoStd(c) == c[1]
Deref(c) == c[1]

Build(ctor, value) ==
    CASE ctor = "Cell::new" -> New(value)
      [] ctor = "From<T>" -> FromValue(value)
      [] ctor = "From<StdCell<T>>" -> FromStd(StdNew(value))

\* impl<T: Copy> Cell<T>::get
CellGet(c, id) == StdGet(Deref(c), id)

----------------------------------------------------------------------------
(* The closures.  A mutating closure applies its function to the &mut T it *)
(* is handed; every closure returns the contents it sees when it returns.  *)

Apply(f, v) ==
    CASE f = "inc" -> (v + 1) % Modulus
      [] f = "dbl" -> (v * 2) % Modulus
      [] OTHER -> v

ClosureBody(f, value) == [value EXCEPT !.v = Apply(f, @)]
Result(f, value) == value.v

----------------------------------------------------------------------------
(* The access methods, split at the closure call: what each does before    *)
(* calling f (Enter), after f returned (Exit), and when f unwinds.         *)

\* Cell::with: f(&self.get())
CellWithEnterTake(c, id) ==
    LET t == StdTake(Deref(c), id) IN [cell |-> <<t.cell>>, value |-> t.out]
CellWithEnter(c, id) == [cell |-> c, value |-> CellGet(c, id)]
CellWithExit(c, value) == c

\* Cell::with_mut: let mut value = self.get(); f(&mut value); self.set(value)
CellWithMutEnterTake(c, id) ==
    LET t == StdTake(Deref(c), id) IN [cell |-> <<t.cell>>, value |-> t.out]
CellWithMutEnter(c, id) == [cell |-> c, value |-> CellGet(c, id)]
CellWithMutExitSkip(c, value) == c
CellWithMutExit(c, value) == <<StdSet(Deref(c), value)>>

\* CellExt::with: let value = self.take(); f(&value); self.set(value)
ExtWithEnterAlias(c, id) == [cell |-> c, value |-> Deref(c).value]
ExtWithEnter(c, id) ==
    LET t == StdTake(Deref(c), id) IN [cell |-> <<t.cell>>, value |-> t.out]
ExtWithExitSkip(c, value) == c
ExtWithExit(c, value) == <<StdSet(Deref(c), value)>>

\* CellExt::with_mut: let mut value = self.take(); f(&mut value); self.set(value)
ExtWithMutEnterPeek(c, id) == [cell |-> c, value |-> CellGet(c, id)]
ExtWithMutEnter(c, id) ==
    LET t == StdTake(Deref(c), id) IN [cell |-> <<t.cell>>, value |-> t.out]
ExtWithMutExitIfVacant(c, value) ==
    IF Deref(c).value.v = DefaultV THEN <<StdSet(Deref(c), value)>> ELSE c
ExtWithMutExit(c, value) == <<StdSet(Deref(c), value)>>

\* f panics: the rest of the method is skipped and its local is dropped.
CellUnwindRestore(c, value) == <<StdSet(Deref(c), value)>>
CellUnwind(c, value) == c
ExtUnwindRestore(c, value) == <<StdSet(Deref(c), value)>>
ExtUnwind(c, value) == c

Enter(meth, c, id) ==
    CASE meth = "Cell::with" -> CellWithEnter(c, id)
      [] meth = "Cell::with_mut" -> CellWithMutEnter(c, id)
      [] meth = "CellExt::with" -> ExtWithEnter(c, id)
      [] meth = "CellExt::with_mut" -> ExtWithMutEnter(c, id)

Exit(meth, c, value) ==
    CASE meth = "Cell::with" -> CellWithExit(c, value)
      [] meth = "Cell::with_mut" -> CellWithMutExit(c, value)
      [] meth = "CellExt::with" -> ExtWithExit(c, value)
      [] meth = "CellExt::with_mut" -> ExtWithMutExit(c, value)

Unwind(meth, c, value) ==
    IF meth \in CopyMeths THEN CellUnwind(c, value) ELSE ExtUnwind(c, value)

\* CellExt::get: self.with(T::clone)
CellExtGet(c, id) ==
    LET e == ExtWithEnter(c, id)
        r == Result("clone", e.value)
    IN  [cell |-> ExtWithExit(e.cell, e.value), result |-> r]

----------------------------------------------------------------------------
(* Bookkeeping                                                             *)

Slot == Deref(cell).value
SlotV == Slot.v
Top == stack[Len(stack)]
Pop(st) == SubSeq(st, 1, Len(st) - 1)

\* Identities are names: after every step they are renamed in order of first
\* appearance (the slot, then the locals from the outermost frame in),
\* keeping who aliases whom; so the names in use are at most 0..Len(stack).
Holders(c, st) ==
    <<Deref(c).value.id>> \o [i \in 1..Len(st) |-> st[i].value.id]
Rank(h, x) ==
    (CHOOSE i \in 1..Len(h) : h[i] = x /\ \A j \in 1..(i - 1) : h[j] # x) - 1
CanonCell(c, st) ==
    <<[Deref(c) EXCEPT !.value.id = 0]>>
CanonStack(c, st) ==
    LET h == Holders(c, st)
    IN  [i \in 1..Len(st) |-> [st[i] EXCEPT !.value.id = Rank(h, @)]]
Commit(c, st) == cell' = CanonCell(c, st) /\ stack' = CanonStack(c, st)

\* The identity of a newly created object: one no live object has.
FreshId(c, st) == Len(st) + 1

\* History: what is left of the stack after an operation that is not the
\* frames' own has run.  If it stored into the slot (the new cell differs from
\* the old one, if only in the identity of the object held), every method
\* still executing notes that the slot was stored into from inside its
\* closure.
MarkWrote(st) == [i \in 1..Len(st) |-> [st[i] EXCEPT !.wrote = TRUE]]
Below(c, st) == IF c = cell THEN st ELSE MarkWrote(st)

\* A frame of an executing access method: its closure f, its local `value`,
\* whether f has used its &mut T yet, and history: the slot's contents at
\* the call (pre) and the contents f was handed (arg).
Frame(meth, f, value, pre) ==
    [meth |-> meth, f |-> f, ran |-> meth \notin MutMeths, value |-> value,
     pre |-> pre, arg |-> value.v, wrote |-> FALSE]

\* The last completed operation, as its caller sees it.
Event(meth, outcome, fr, result) ==
    [meth |-> meth, outcome |-> outcome, f |-> fr.f, pre |-> fr.pre,
     arg |-> fr.arg, final |-> fr.value.v, wrote |-> fr.wrote,
     result |-> result]
Plain(meth, pre, result) ==
    [meth |-> meth, outcome |-> "return", f |-> "none", pre |-> pre,
     arg |-> pre, final |-> pre, wrote |-> FALSE, result |-> result]
NoEvent == Plain("none", DefaultV, DefaultV)

----------------------------------------------------------------------------
(* The state machine                                                       *)

Init ==
    /\ \E ctor \in Ctors, v \in Val :
          /\ cell = Build(ctor, Obj(0, v))
          /\ done = Plain(ctor, v, v)
    /\ stack = <<>>
    /\ panicking = FALSE

\* cell.set(w), by the owner or by a running closure (through Deref).
Set(w) ==
    /\ ~panicking
    /\ Commit(<<StdSet(Deref(cell), Obj(FreshId(cell, stack), w))>>,
              MarkWrote(stack))
    /\ done' = NoEvent
    /\ UNCHANGED panicking

\* Cell::get (T: Copy), by the owner or by a running closure.
GetCopy ==
    /\ ~panicking
    /\ done' = Plain("Cell::get", SlotV,
                     CellGet(cell, FreshId(cell, stack)).v)
    /\ UNCHANGED <<cell, stack, panicking>>

\* CellExt::get (T: Clone + Default), by the owner or by a running closure.
GetExt ==
    /\ ~panicking
    /\ LET g == CellExtGet(cell, FreshId(cell, stack))
       IN  /\ Commit(g.cell, MarkWrote(stack))
           /\ done' = Plain("CellExt::get", SlotV, g.result)
    /\ UNCHANGED panicking

\* A call of with / with_mut, up to the point where the closure starts.
Call(meth, f) ==
    /\ ~panicking
    /\ Len(stack) < MaxDepth
    /\ LET e == Enter(meth, cell, FreshId(cell, stack))
       IN  Commit(e.cell,
                  Append(Below(e.cell, stack), Frame(meth, f, e.value, SlotV)))
    /\ done' = NoEvent
    /\ UNCHANGED panicking

\* The running mutating closure applies its function to the &mut T it was
\* handed (a reading closure only reads, when it returns its result).
Body ==
    /\ ~panicking
    /\ stack # <<>>
    /\ ~Top.ran
    /\ stack' = [stack EXCEPT ![Len(stack)] =
                    [Top EXCEPT !.ran = TRUE,
                                !.value = ClosureBody(Top.f, Top.value)]]
    /\ done' = NoEvent
    /\ UNCHANGED <<cell, panicking>>

\* The running closure returns; its method finishes and returns the result.
Return ==
    /\ ~panicking
    /\ stack # <<>>
    /\ Top.ran
    /\ LET c == Exit(Top.meth, cell, Top.value)
       IN  Commit(c, Below(c, Pop(stack)))
    /\ done' = Event(Top.meth, "return", Top, Result(Top.f, Top.value))
    /\ UNCHANGED panicking

\* The running closure panics; the panic unwinds through its method.
Panic ==
    /\ ~panicking
    /\ stack # <<>>
    /\ LET c == Unwind(Top.meth, cell, Top.value)
       IN  Commit(c, Below(c, Pop(stack)))
    /\ done' = Event(Top.meth, "panic", Top, DefaultV)
    /\ panicking' = TRUE

\* The enclosing closure does not catch the panic: it unwinds through the
\* enclosing method as well.
Propagate ==
    /\ panicking
    /\ stack # <<>>
    /\ LET c == Unwind(Top.meth, cell, Top.value)
       IN  Commit(c, Below(c, Pop(stack)))
    /\ done' = Event(Top.meth, "panic", Top, DefaultV)
    /\ UNCHANGED panicking

\* The caller of the method that unwound catches the panic and goes on.
Catch ==
    /\ panicking
    /\ panicking' = FALSE
    /\ done' = [done EXCEPT !.outcome = "caught"]
    /\ UNCHANGED <<cell, stack>>

\* The owner converts the cell into a bare StdCell and back into a Cell.
Convert ==
    /\ ~panicking
    /\ stack = <<>>
    /\ LET std == IntoStd(cell)
           back == IntoStd(FromStd(std))
       IN  /\ cell' = FromStd(back)
           /\ done' = Plain("convert", SlotV,
                            StdGet(back, FreshId(cell, stack)).v)
    /\ UNCHANGED <<stack, panicking>>

Next ==
    \/ \E w \in Val : Set(w)
    \/ GetCopy
    \/ GetExt
    \/ \E meth \in Meths : \E f \in Closures(meth) : Call(meth, f)
    \/ Body
    \/ Return
    \/ Panic
    \/ Propagate
    \/ Catch
    \/ Convert

Spec == Init /\ [][Next]_vars

----------------------------------------------------------------------------
(* What a caller would observe if it read the cell now                     *)

GetNowCopy == CellGet(cell, FreshId(cell, stack)).v
GetNowExt == CellExtGet(cell, FreshId(cell, stack)).result
WithNowCopy == Result("read", CellWithEnter(cell, FreshId(cell, stack)).value)
WithNowExt == Result("read", ExtWithEnter(cell, FreshId(cell, stack)).value)

Returned == done.outcome = "return"
Unwound == done.outcome \in {"panic", "caught"}

----------------------------------------------------------------------------
(* The claims                                                              *)

\* C1: when with_mut(m), on the Copy path or the Default path, has returned
\* normally and m stored nothing into the cell re-entrantly (in particular
\* when m did not call back into the cell), then m was handed the value the
\* cell held at the call, the call returned m's result, and a get or with
\* issued now observes m applied to that value.
MutationVisible ==
    (done.meth \in MutMeths /\ Returned /\ ~done.wrote) =>
        /\ done.arg = done.pre
        /\ done.result = Result(done.f, Obj(0, Apply(done.f, done.pre)))
        /\ done.meth = "Cell::with_mut" =>
              /\ GetNowCopy = Apply(done.f, done.pre)
              /\ WithNowCopy = Apply(done.f, done.pre)
        /\ done.meth = "CellExt::with_mut" =>
              /\ GetNowExt = Apply(done.f, done.pre)
              /\ WithNowExt = Apply(done.f, done.pre)

MutationVisibleWitness ==
    /\ done.meth = "Cell::with_mut"
    /\ Returned
    /\ ~done.wrote
    /\ SlotV = Apply(done.f, done.pre)
    /\ SlotV # done.pre

\* C2, as claimed: whenever with(f) has returned normally, on either path, a
\* get issued now observes the value the cell held right before the call.
ReadOnlyKeepsValueAlways ==
    (done.meth \in {"Cell::with", "CellExt::with"} /\ Returned) =>
        (GetNowCopy = done.pre /\ GetNowExt = done.pre)

\* C2, amended: the same, on the Copy path only for a closure that stored
\* nothing into the cell re-entrantly (Cell::with has no write-back to undo
\* such a store); on the Default path for every closure.
ReadOnlyKeepsValue ==
    (/\ done.meth \in {"Cell::with", "CellExt::with"}
     /\ Returned
     /\ done.meth = "Cell::with" => ~done.wrote) =>
        (GetNowCopy = done.pre /\ GetNowExt = done.pre)

ReadOnlyKeepsValueWitness ==
    /\ done.meth = "CellExt::with"
    /\ Returned
    /\ done.wrote
    /\ done.pre # DefaultV
    /\ SlotV = done.pre

\* C3, as claimed: whenever the closure of CellExt::with or CellExt::with_mut
\* panicked, the panic reaches the caller and the slot holds T::default(),
\* which is what the next get or with observes.
ExtPanicLeavesDefaultAlways ==
    (done.meth \in ExtMeths /\ Unwound) =>
        /\ SlotV = DefaultV
        /\ done.outcome = "panic" => panicking
        /\ done.outcome = "caught" =>
              (GetNowExt = DefaultV /\ WithNowExt = DefaultV)

\* C3, amended: the same, for a closure that stored nothing into the cell
\* re-entrantly before it panicked.
ExtPanicLeavesDefault ==
    (done.meth \in ExtMeths /\ Unwound /\ ~done.wrote) =>
        /\ SlotV = DefaultV
        /\ done.outcome = "panic" => panicking
        /\ done.outcome = "caught" =>
              (GetNowExt = DefaultV /\ WithNowExt = DefaultV)

ExtPanicLeavesDefaultWitness ==
    /\ done.meth = "CellExt::with_mut"
    /\ done.outcome = "caught"
    /\ ~done.wrote
    /\ done.pre # DefaultV
    /\ SlotV = DefaultV

\* C4, as claimed: whenever the closure of Cell::with_mut panicked, the slot
\* holds the value it held before the with_mut call.
CopyPanicKeepsValueAlways ==
    (done.meth = "Cell::with_mut" /\ Unwound) => SlotV = done.pre

\* C4, amended: the same, for a closure that stored nothing into the cell
\* re-entrantly before it panicked (whatever it did to its duplicate).
CopyPanicKeepsValue ==
    (done.meth = "Cell::with_mut" /\ Unwound /\ ~done.wrote) =>
        SlotV = done.pre

CopyPanicKeepsValueWitness ==
    /\ done.meth = "Cell::with_mut"
    /\ done.outcome = "caught"
    /\ ~done.wrote
    /\ done.final # done.pre
    /\ SlotV = done.pre

\* C5, as claimed: while a closure passed to CellExt::with or
\* CellExt::with_mut is running, a re-entrant read of the cell, at any
\* nesting depth, observes T::default().
ReentrantSeesPlaceholderAlways ==
    \A i \in DOMAIN stack :
        stack[i].meth \in ExtMeths =>
            (GetNowCopy = DefaultV /\ GetNowExt = DefaultV)

\* C5, amended: a re-entrant read observes T::default() as long as nothing
\* was stored into the cell re-entrantly since that method's take; and in
\* every case the object in the slot is not the checked-out one.
ReentrantSeesPlaceholder ==
    \A i \in DOMAIN stack :
        stack[i].meth \in ExtMeths =>
            /\ Slot.id # stack[i].value.id
            /\ ~stack[i].wrote =>
                  /\ SlotV = DefaultV
                  /\ GetNowCopy = DefaultV
                  /\ GetNowExt = DefaultV
                  /\ WithNowExt = DefaultV

ReentrantSeesPlaceholderWitness ==
    /\ stack # <<>>
    /\ Top.meth = "CellExt::with_mut"
    /\ ~Top.wrote
    /\ Top.pre # DefaultV
    /\ done.meth = "Cell::get"
    /\ done.result = DefaultV

\* C6: in every reachable state the slot holds one valid value of T, every
\* local binding of an executing access method holds one, and no object is
\* held in two places (the slot and a local, or two locals).
SingleOwnership ==
    /\ Slot \in [id : Nat, v : Val]
    /\ \A i \in DOMAIN stack :
          /\ stack[i].value \in [id : Nat, v : Val]
          /\ stack[i].value.id # Slot.id
          /\ \A j \in DOMAIN stack : i # j => stack[i].value.id # stack[j].value.id

SingleOwnershipWitness ==
    /\ Len(stack) >= 2
    /\ \A i \in DOMAIN stack : stack[i].meth \in ExtMeths
    /\ ~panicking

\* C7, as claimed: for every access method that is executing before and after
\* a step (so the step is neither its take nor its write-back), the step
\* leaves the slot's contents unchanged.
ExclusiveSlotAlways ==
    [][(stack # <<>> /\ stack' # <<>>) => SlotV' = SlotV]_vars

\* C7, amended: such a step changes the slot's contents only if it is an
\* operation the running closure invokes re-entrantly on the cell: a set, the
\* take of a nested Default-path access, or the write-back of a nested access
\* that returned normally.  The closure's use of the reference it was handed
\* and a panic never change the slot.
ExclusiveSlotButReentrant ==
    [][(stack # <<>> /\ stack' # <<>> /\ SlotV' # SlotV) =>
          /\ \A i \in DOMAIN stack \cap DOMAIN stack' : stack'[i].wrote
          /\ \/ Len(stack') = Len(stack) /\ stack' = MarkWrote(stack)
             \/ /\ Len(stack') = Len(stack) + 1
                /\ stack'[Len(stack')].meth \in ExtMeths
             \/ /\ Len(stack') = Len(stack) - 1
                /\ done'.outcome = "return"
                /\ done'.meth \in Meths \ {"Cell::with"}]_vars

ExclusiveSlotWitness ==
    /\ Len(stack) = 1
    /\ Top.meth \in ExtMeths
    /\ Top.wrote
    /\ SlotV # DefaultV

\* C8, as claimed: while the closure of Cell::with or Cell::with_mut runs, the
\* slot holds the value it held at the call.
CopyPathSlotUntouchedAlways ==
    \A i \in DOMAIN stack :
        stack[i].meth \in CopyMeths => SlotV = stack[i].pre

\* C8, amended: Cell::with and Cell::with_mut themselves store nothing into
\* the slot before the closure returns, and Cell::with never does: as long
\* as the closure stored nothing into the cell re-entrantly, the slot holds
\* the value it held at the call, a re-entrant get returns that value and
\* not the mutated duplicate, and it still holds it after Cell::with returned.
CopyPathSlotUntouched ==
    /\ \A i \in DOMAIN stack :
          (stack[i].meth \in CopyMeths /\ ~stack[i].wrote) =>
              (SlotV = stack[i].pre /\ GetNowCopy = stack[i].pre)
    /\ (done.meth = "Cell::with" /\ ~done.wrote) => SlotV = done.pre

CopyPathSlotUntouchedWitness ==
    /\ stack # <<>>
    /\ Top.meth = "Cell::with_mut"
    /\ Top.ran
    /\ ~Top.wrote
    /\ Top.value.v # Top.pre
    /\ done.meth = "Cell::get"
    /\ done.result = Top.pre

\* C9: a cell built by Cell::new(v), Cell::from(v) or
\* Cell::from(StdCell::new(v)) returns v from get, converting it into a
\* StdCell gives a container whose get returns v, and converting a cell into
\* a StdCell and back into a Cell keeps the value it holds.
ConversionsPreserveValue ==
    /\ done.meth \in Ctors =>
          /\ GetNowCopy = done.pre
          /\ StdGet(IntoStd(cell), FreshId(cell, stack)).v = done.pre
    /\ done.meth = "convert" =>
          /\ done.result = done.pre
          /\ GetNowCopy = done.pre

ConversionsPreserveValueWitness ==
    /\ done.meth = "convert"
    /\ done.pre # DefaultV
    /\ SlotV = done.pre

\* C10: when a method with a write-back (Cell::with_mut, CellExt::with,
\* CellExt::with_mut) has returned normally and its closure had stored into
\* the cell re-entrantly, the slot holds the closure's final local value:
\* the write-back overwrote whatever was stored from inside the closure.
OuterWriteBackWins ==
    (done.meth \in Meths \ {"Cell::with"} /\ Returned /\ done.wrote) =>
        (SlotV = done.final /\ GetNowCopy = done.final)

OuterWriteBackWinsWitness ==
    /\ done.meth = "CellExt::with_mut"
    /\ Returned
    /\ done.wrote
    /\ done.final # DefaultV
    /\ SlotV = done.final

====
